---- MODULE Spec2Model ----
\* Shift logger of the Problem Solve department (src/PSCounts.py): the entry
\* form, the Excel workbook with its quarter sheets, the EoS rollup, the
\* Shift Changes summary, the JSON store and the delta analysis.
EXTENDS Integers, Sequences, FiniteSets, TLC

\* ---------------------------------------------------------------- bounds
\* How many entries of each configuration list the model carries.
NumFloors == 1
NumRspMetrics == 2
NumDockMetrics == 1
NumDmgMetrics == 1
NumOtherRoles == 1
\* Largest count a user types into a field.
MaxCount == 1
\* Field edits, submissions and imports per run.
MaxEdits == 1
MaxSubmits == 2
MaxImports == 1
\* File operations that fail per run.
MaxFailures == 1

\* ------------------------------------------------- configuration (lists)
Take(s, n) == SubSeq(s, 1, IF n < Len(s) THEN n ELSE Len(s))

QUARTERS == <<"SoS", "Q1", "Q2", "Q3", "EoS">>
RSP_FLOORS == Take(<<"A2", "A3", "A4", "B2", "B3", "B4">>, NumFloors)
RSP_METRICS ==
    Take(<<"Headcount", "Piles", "Damages", "LAF", "ISS", "NONCON">>, NumRspMetrics)
DOCK_METRICS ==
    Take(<<"Headcount", "Piles", "Liquid Damages", "Dry Damages", "LAF", "ISS", "NC">>,
         NumDockMetrics)
DAMAGELAND_METRICS ==
    Take(<<"Headcount", "Backlog", "Damage Stow", "Received", "Deletes">>, NumDmgMetrics)
OTHER_ROLES ==
    Take(<<"Customer Returns", "Inbound Support Services (ICQA)", "IOL", "GK">>,
         NumOtherRoles)

Range(s) == {s[i] : i \in 1..Len(s)}

\* A sequence given by a function over 1..n, as the tuple of its items.
AsSeq(f) == f \o <<>>

\* Sheets of a workbook made by create_new_workbook.
SheetNames == {"SoS", "Q1", "Q2", "Q3", "EoS", "Wash", "Shift Changes"}

\* ----------------------------------------------------------------- values
\* A Python value held in a record, a DataFrame or the dataset: an int or
\* float, a str, None, or the float NaN that pandas uses for a missing cell.
Num(n) == [num |-> n]
Str(s) == [str |-> s]
None == [none |-> TRUE]
NaN == [nan |-> TRUE]
\* A worksheet cell with no value.
Empty == [empty |-> TRUE]

IsNum(v) == DOMAIN v = {"num"}
IsStr(v) == DOMAIN v = {"str"}

\* ------------------------------------------------------------ dictionaries
\* A Python dict: the key/value pairs in insertion order.
HasKey(d, k) == \E i \in 1..Len(d) : d[i][1] = k
Get(d, k) == d[CHOOSE i \in 1..Len(d) : d[i][1] = k][2]
Put(d, k, v) ==
    IF HasKey(d, k)
    THEN AsSeq([i \in 1..Len(d) |-> IF d[i][1] = k THEN <<k, v>> ELSE d[i]])
    ELSE Append(d, <<k, v>>)
Keys(d) == AsSeq([i \in 1..Len(d) |-> d[i][1]])
KeySet(d) == {d[i][1] : i \in 1..Len(d)}

\* ------------------------------------------------------- string comparison
\* Python compares str values by code point; the strings that are sorted are
\* role names.
CodePoints(s) ==
    CASE s = "RSP (A2)" -> <<82, 83, 80, 32, 40, 65, 50, 41>>
      [] s = "RSP (A3)" -> <<82, 83, 80, 32, 40, 65, 51, 41>>
      [] s = "RSP (A4)" -> <<82, 83, 80, 32, 40, 65, 52, 41>>
      [] s = "RSP (B2)" -> <<82, 83, 80, 32, 40, 66, 50, 41>>
      [] s = "RSP (B3)" -> <<82, 83, 80, 32, 40, 66, 51, 41>>
      [] s = "RSP (B4)" -> <<82, 83, 80, 32, 40, 66, 52, 41>>
      [] s = "RSP (Total)" -> <<82, 83, 80, 32, 40, 84, 111, 116, 97, 108, 41>>
      [] s = "RSP (Headcount Total)" ->
            <<82, 83, 80, 32, 40, 72, 101, 97, 100, 99, 111, 117, 110, 116, 32,
              84, 111, 116, 97, 108, 41>>
      [] s = "Non-RSP (Headcount Total)" ->
            <<78, 111, 110, 45, 82, 83, 80, 32, 40, 72, 101, 97, 100, 99, 111,
              117, 110, 116, 32, 84, 111, 116, 97, 108, 41>>
      [] s = "Dock" -> <<68, 111, 99, 107>>
      [] s = "Damageland" -> <<68, 97, 109, 97, 103, 101, 108, 97, 110, 100>>
      [] s = "Customer Returns" ->
            <<67, 117, 115, 116, 111, 109, 101, 114, 32, 82, 101, 116, 117, 114,
              110, 115>>
      [] s = "Inbound Support Services (ICQA)" ->
            <<73, 110, 98, 111, 117, 110, 100, 32, 83, 117, 112, 112, 111, 114,
              116, 32, 83, 101, 114, 118, 105, 99, 101, 115, 32, 40, 73, 67, 81,
              65, 41>>
      [] s = "IOL" -> <<73, 79, 76>>
      [] s = "GK" -> <<71, 75>>
      [] s = "Yard" -> <<89, 97, 114, 100>>

RECURSIVE SeqLess(_, _)
SeqLess(a, b) ==
    IF b = <<>> THEN FALSE
    ELSE IF a = <<>> THEN TRUE
    ELSE IF a[1] # b[1] THEN a[1] < b[1]
    ELSE SeqLess(Tail(a), Tail(b))

StrLess(a, b) == SeqLess(CodePoints(a), CodePoints(b))

\* The strings of a set in ascending order.
RECURSIVE SortedStrings(_)
SortedStrings(S) ==
    IF S = {} THEN <<>>
    ELSE LET m == CHOOSE x \in S : \A y \in S \ {x} : StrLess(x, y)
         IN <<m>> \o SortedStrings(S \ {m})

\* ---------------------------------------------------------------- DataFrame
\* A pandas DataFrame and a worksheet are both a header and rows of cells;
\* row[i] is the cell under cols[i].
EmptyFrame == [cols |-> <<>>, rows |-> <<>>]

ColIndex(cols, c) == CHOOSE i \in 1..Len(cols) : cols[i] = c
HasCol(df, c) == c \in Range(df.cols)

\* The items of a list of lists in order of first appearance: item a comes
\* before item b when its first list is earlier, or the same and a is earlier
\* in it.
FirstList(lists, k) ==
    CHOOSE i \in 1..Len(lists) :
        /\ k \in Range(lists[i])
        /\ \A h \in 1..(i - 1) : k \notin Range(lists[h])

FirstPos(lists, k) ==
    LET l == lists[FirstList(lists, k)]
    IN CHOOSE j \in 1..Len(l) : l[j] = k /\ \A h \in 1..(j - 1) : l[h] # k

SeenBefore(lists, a, b) ==
    \/ FirstList(lists, a) < FirstList(lists, b)
    \/ /\ FirstList(lists, a) = FirstList(lists, b)
       /\ FirstPos(lists, a) < FirstPos(lists, b)

FirstSeen(lists) ==
    LET items == UNION {Range(lists[i]) : i \in 1..Len(lists)}
    IN AsSeq([p \in 1..Cardinality(items) |->
                CHOOSE k \in items :
                    Cardinality({a \in items : SeenBefore(lists, a, k)}) = p - 1])

\* Keys of a list of dicts in order of first appearance.
UnionKeys(recs) == FirstSeen(AsSeq([i \in 1..Len(recs) |-> Keys(recs[i])]))

\* pd.DataFrame(records): one row per dict, a key a dict lacks is NaN.
DataFrame(recs) ==
    LET cols == UnionKeys(recs)
    IN [cols |-> cols,
        rows |-> AsSeq([i \in 1..Len(recs) |->
                    AsSeq([j \in 1..Len(cols) |->
                        IF HasKey(recs[i], cols[j]) THEN Get(recs[i], cols[j])
                        ELSE NaN])])]

\* df.drop(columns=[c])
KeptIdx(cols, c) ==
    LET F[i \in 0..Len(cols)] ==
            IF i = 0 THEN <<>>
            ELSE IF cols[i] # c THEN Append(F[i - 1], i) ELSE F[i - 1]
    IN F[Len(cols)]

DropColumn(df, c) ==
    LET idx == KeptIdx(df.cols, c)
    IN [cols |-> AsSeq([j \in 1..Len(idx) |-> df.cols[idx[j]]]),
        rows |-> AsSeq([i \in 1..Len(df.rows) |->
                    AsSeq([j \in 1..Len(idx) |-> df.rows[i][idx[j]]])])]

\* The column c of a frame, and the cell of one row under c (NaN when the
\* frame has no such column).
Cell(df, i, c) ==
    IF HasCol(df, c) THEN df.rows[i][ColIndex(df.cols, c)] ELSE NaN

\* df.to_excel(writer, sheet_name, index=False): None, NaN and the empty
\* string all leave the cell without a value.
CellOf(v) ==
    IF v = None \/ v = NaN \/ v = Str("") THEN Empty ELSE v

to_excel(df) ==
    IF df.cols = <<>> THEN EmptyFrame
    ELSE [cols |-> df.cols,
          rows |-> AsSeq([i \in 1..Len(df.rows) |->
                      AsSeq([j \in 1..Len(df.cols) |-> CellOf(df.rows[i][j])])])]

\* pd.read_excel(file, sheet_name): a cell without a value reads as NaN.
ValueOf(c) == IF c = Empty THEN NaN ELSE c

read_excel(sheet) ==
    [cols |-> sheet.cols,
     rows |-> AsSeq([i \in 1..Len(sheet.rows) |->
                 AsSeq([j \in 1..Len(sheet.cols) |-> ValueOf(sheet.rows[i][j])])])]

\* --------------------------------------------------------------- the form
\* Text a user can leave in an entry field: nothing, a positive count, or text
\* that is no number (the entries of PSCounts.py take any text).
FieldTexts == {"", "x"} \cup {ToString(n) : n \in 1..MaxCount}

\* Largest total the form can show.
MaxTotal ==
    MaxCount * (Len(RSP_FLOORS) + Len(OTHER_ROLES) + 2)

\* str.isdigit() and int() on the texts of the model.
isdigit(s) == \E n \in 0..MaxTotal : ToString(n) = s
int(s) == CHOOSE n \in 0..MaxTotal : ToString(n) = s

RECURSIVE SumSeq(_)
SumSeq(s) == IF s = <<>> THEN 0 ELSE Head(s) + SumSeq(Tail(s))

\* The count a field adds to a total: its number when it is all digits.
DigitsOrZero(s) == IF isdigit(s) THEN int(s) ELSE 0

\* update_headcount_totals: the two headcount totals from the current fields;
\* a section without a Headcount field (KeyError) adds nothing.
RspHeadcountTotal(rsp) ==
    SumSeq(AsSeq([i \in 1..Len(RSP_FLOORS) |->
              IF "Headcount" \in DOMAIN rsp[RSP_FLOORS[i]]
              THEN DigitsOrZero(rsp[RSP_FLOORS[i]]["Headcount"]) ELSE 0]))

\* A faulty non-RSP total that leaves out the other roles; the agreement of
\* the totals with their components must tell it from the real one.
NonRspHeadcountTotalSections(dock, dmg, other) ==
    (IF "Headcount" \in DOMAIN dock THEN DigitsOrZero(dock["Headcount"]) ELSE 0)
    + (IF "Headcount" \in DOMAIN dmg THEN DigitsOrZero(dmg["Headcount"]) ELSE 0)

NonRspHeadcountTotal(dock, dmg, other) ==
    (IF "Headcount" \in DOMAIN dock THEN DigitsOrZero(dock["Headcount"]) ELSE 0)
    + (IF "Headcount" \in DOMAIN dmg THEN DigitsOrZero(dmg["Headcount"]) ELSE 0)
    + SumSeq(AsSeq([i \in 1..Len(OTHER_ROLES) |-> DigitsOrZero(other[OTHER_ROLES[i]])]))

\* update_rsp_total: the Piles total of the floors.
RspPilesTotal(rsp) ==
    SumSeq(AsSeq([i \in 1..Len(RSP_FLOORS) |->
              IF "Piles" \in DOMAIN rsp[RSP_FLOORS[i]]
              THEN DigitsOrZero(rsp[RSP_FLOORS[i]]["Piles"]) ELSE 0]))

\* int(val) if (val and validate_numeric(val)) else None
FieldValue(s) == IF s # "" /\ isdigit(s) THEN Num(int(s)) ELSE None

\* int(total_var.get()) with 0 when the text is no number.
TotalValue(s) == IF isdigit(s) THEN int(s) ELSE 0

\* The metrics of one record, in the order of its metric list.
MetricPairs(metrics, entries) ==
    AsSeq([j \in 1..Len(metrics) |-> <<metrics[j], FieldValue(entries[metrics[j]])>>])

RspRole(floor) == "RSP (" \o floor \o ")"

\* collect_data: the record batch of the form, one dict per role.
collect_data(q, rsp, dock, dmg, other, rspHeadTotal, nonRspHeadTotal) ==
    LET base(role, floor) ==
            <<<<"Quarter", Str(q)>>, <<"Role", Str(role)>>, <<"Floor", Str(floor)>>>>
        floors == AsSeq([i \in 1..Len(RSP_FLOORS) |->
                     base(RspRole(RSP_FLOORS[i]), RSP_FLOORS[i])
                     \o MetricPairs(RSP_METRICS, rsp[RSP_FLOORS[i]])])
        total_piles == RspPilesTotal(rsp)
        others == AsSeq([i \in 1..Len(OTHER_ROLES) |->
                     Append(base(OTHER_ROLES[i], ""),
                            <<"Headcount", FieldValue(other[OTHER_ROLES[i]])>>)])
    IN floors
       \o <<Append(base("RSP (Total)", ""), <<"Piles", Num(total_piles)>>)>>
       \o <<Append(base("RSP (Headcount Total)", ""),
                   <<"Headcount", Num(TotalValue(rspHeadTotal))>>)>>
       \o <<base("Dock", "") \o MetricPairs(DOCK_METRICS, dock)>>
       \o <<base("Damageland", "") \o MetricPairs(DAMAGELAND_METRICS, dmg)>>
       \o others
       \o <<Append(base("Non-RSP (Headcount Total)", ""),
                   <<"Headcount", Num(TotalValue(nonRspHeadTotal))>>)>>

\* ----------------------------------------------------------- the workbook
\* create_new_workbook: the seven sheets, all empty.
create_new_workbook == [s \in SheetNames |-> EmptyFrame]

\* A faulty save_quarter_to_excel that leaves a sheet that already has
\* contents as it is; the replacement property must tell it from the real one.
save_quarter_keeping(quarter, recs, wb) ==
    IF wb[quarter].cols # <<>> THEN wb
    ELSE [wb EXCEPT ![quarter] = to_excel(DataFrame(recs))]

\* A faulty save_quarter_to_excel that writes the sheet into a new document
\* instead of the existing one; the frame property must tell it from the real
\* one.
save_quarter_new_document(quarter, recs, wb) ==
    [create_new_workbook EXCEPT ![quarter] = to_excel(DataFrame(recs))]

\* save_quarter_to_excel: the sheet of the quarter is replaced by the table of
\* the records; for EoS a Quarter column is dropped first.
save_quarter_to_excel(quarter, recs, wb) ==
    LET df0 == DataFrame(recs)
        df == IF quarter = "EoS" /\ HasCol(df0, "Quarter")
              THEN DropColumn(df0, "Quarter") ELSE df0
    IN [wb EXCEPT ![quarter] = to_excel(df)]

\* pd.concat(frames, ignore_index=True): all rows, under the union of the
\* columns in order of first appearance.
ConcatCols(frames) == FirstSeen(AsSeq([i \in 1..Len(frames) |-> frames[i].cols]))

RECURSIVE ConcatRows(_, _)
ConcatRows(frames, cols) ==
    IF frames = <<>> THEN <<>>
    ELSE AsSeq([i \in 1..Len(Head(frames).rows) |->
            AsSeq([j \in 1..Len(cols) |-> Cell(Head(frames), i, cols[j])])])
         \o ConcatRows(Tail(frames), cols)

concat(frames) ==
    LET cols == ConcatCols(frames)
    IN [cols |-> cols, rows |-> ConcatRows(frames, cols)]

\* pd.api.types.is_numeric_dtype of a column read from a sheet: no cell of it
\* holds text.
is_numeric_dtype(df, c) ==
    \A i \in 1..Len(df.rows) : IsNum(Cell(df, i, c)) \/ Cell(df, i, c) = NaN

\* The rows of a group, in frame order.
GroupIdx(df, role) ==
    LET F[i \in 0..Len(df.rows)] ==
            IF i = 0 THEN <<>>
            ELSE IF Cell(df, i, "Role") = Str(role) THEN Append(F[i - 1], i)
            ELSE F[i - 1]
    IN F[Len(df.rows)]

\* x.sum() of a numeric column over a group: NaN cells are skipped.
GroupSum(df, idx, c) ==
    SumSeq(AsSeq([k \in 1..Len(idx) |->
              IF IsNum(Cell(df, idx[k], c)) THEN Cell(df, idx[k], c).num ELSE 0]))

\* A faulty agg lambda that takes the first value of the group for every
\* column; the rollup property must tell it from the real one.
AggCellFirst(df, idx, c) == Cell(df, idx[1], c)

\* The lambda of the agg call: the sum for a numeric column, else the first
\* value of the group.
AggCell(df, idx, c) ==
    IF is_numeric_dtype(df, c) THEN Num(GroupSum(df, idx, c))
    ELSE Cell(df, idx[1], c)

\* combined_df.groupby("Role", as_index=False).agg(...): one row per role in
\* sorted order, Role first, then the other columns.
GroupByRoleAgg(df) ==
    LET roles == SortedStrings({df.rows[i][ColIndex(df.cols, "Role")].str :
                                  i \in {k \in 1..Len(df.rows) :
                                           IsStr(Cell(df, k, "Role"))}})
        rest == KeptIdx(df.cols, "Role")
        cols == <<"Role">> \o AsSeq([j \in 1..Len(rest) |-> df.cols[rest[j]]])
    IN [cols |-> cols,
        rows |-> AsSeq([g \in 1..Len(roles) |->
                    <<Str(roles[g])>>
                    \o AsSeq([j \in 1..Len(rest) |->
                          AggCell(df, GroupIdx(df, roles[g]), df.cols[rest[j]])])])]

\* Quarter sheets that feed the EoS rollup, in reading order.
RollupSheets == <<"SoS", "Q1", "Q2", "Q3">>

\* A faulty EoS branch that writes the sheet back as it was read, Quarter
\* column included; the idempotence property must tell it from the real one.
AggregateEoSKeeping(wb) == [wb EXCEPT !["EoS"] = to_excel(read_excel(wb["EoS"]))]

\* aggregate_data, EoS submitted: the EoS sheet is read, a Quarter column is
\* dropped, and the sheet is written back.
AggregateEoS(wb) ==
    LET df0 == read_excel(wb["EoS"])
        df == IF HasCol(df0, "Quarter") THEN DropColumn(df0, "Quarter") ELSE df0
    IN [wb EXCEPT !["EoS"] = to_excel(df)]

\* aggregate_data, another quarter submitted: SoS..Q3 are read, concatenated
\* and grouped by Role into the EoS sheet.
AggregateQuarters(wb) ==
    LET frames == AsSeq([i \in 1..Len(RollupSheets) |-> read_excel(wb[RollupSheets[i]])])
        combined_df == concat(frames)
    IN [wb EXCEPT !["EoS"] = to_excel(GroupByRoleAgg(combined_df))]

\* groupby("Role") raises KeyError when no contributing sheet has a Role column.
AggregateRaises(wb) ==
    \A i \in 1..Len(RollupSheets) : ~HasCol(wb[RollupSheets[i]], "Role")

\* A faulty aggregate_data that rolls SoS..Q3 up whatever quarter was
\* submitted; the passthrough property must tell it from the real one.
aggregate_always(wb, current_quarter) ==
    IF AggregateRaises(wb) THEN wb ELSE AggregateQuarters(wb)

\* A faulty aggregate_data that leaves an EoS sheet that was submitted
\* directly as it is; the last-submission property must tell it from the real
\* one.
aggregate_keeping_direct(wb, current_quarter) ==
    IF current_quarter = "EoS" THEN AggregateEoS(wb)
    ELSE IF AggregateRaises(wb) THEN wb
    ELSE IF wb["EoS"].rows # <<>> /\ ~HasCol(wb["EoS"], "Quarter") THEN wb
    ELSE AggregateQuarters(wb)

aggregate_data(wb, current_quarter) ==
    IF current_quarter = "EoS" THEN AggregateEoS(wb)
    ELSE IF AggregateRaises(wb) THEN wb
    ELSE AggregateQuarters(wb)

\* ------------------------------------------------------ Shift Changes sheet
\* row = {"Quarter": quarter}; row.update(data)
RECURSIVE update(_, _)
update(d, e) ==
    IF e = <<>> THEN d ELSE update(Put(d, Head(e)[1], Head(e)[2]), Tail(e))

\* The rows of update_shift_changes_summary before sorting: one per quarter
\* and role of the dataset, in the order the dataset holds them.
RECURSIVE SummaryRows(_)
SummaryRows(data) ==
    IF data = <<>> THEN <<>>
    ELSE LET quarter == Head(data)[1]
             roles == Head(data)[2]
         IN AsSeq([i \in 1..Len(roles) |->
               update(<<<<"Quarter", Str(quarter)>>>>, roles[i][2])])
            \o SummaryRows(Tail(data))

\* quarter_order.get(x, 99)
quarter_order(v) ==
    CASE v = Str("SoS") -> 1
      [] v = Str("Q1") -> 2
      [] v = Str("Q2") -> 3
      [] v = Str("Q3") -> 4
      [] v = Str("EoS") -> 5
      [] OTHER -> 99

\* Order of two Role cells under sort_values: text by code point, a missing
\* value after every text.
RoleLess(a, b) ==
    IF IsStr(a) /\ IsStr(b) THEN StrLess(a.str, b.str)
    ELSE IsStr(a) /\ ~IsStr(b)

\* Row i of df sorts strictly before row j under by=["QuarterOrder", "Role"].
RowLess(df, i, j) ==
    LET qi == quarter_order(Cell(df, i, "Quarter"))
        qj == quarter_order(Cell(df, j, "Quarter"))
    IN \/ qi < qj
       \/ qi = qj /\ RoleLess(Cell(df, i, "Role"), Cell(df, j, "Role"))

\* df.sort_values(by=["QuarterOrder", "Role"]): the row indexes in sorted
\* order; rows with equal keys keep their order.
RECURSIVE InsertIdx(_, _, _)
InsertIdx(df, sorted, i) ==
    IF sorted = <<>> THEN <<i>>
    ELSE IF RowLess(df, i, Head(sorted)) THEN <<i>> \o sorted
    ELSE <<Head(sorted)>> \o InsertIdx(df, Tail(sorted), i)

RECURSIVE SortedIdx(_, _)
SortedIdx(df, n) ==
    IF n = 0 THEN <<>> ELSE InsertIdx(df, SortedIdx(df, n - 1), n)

\* A faulty sort_values that leaves the rows in frame order; the ordering
\* property must tell it from the real one.
sort_values_skipped(df) == df

sort_values(df) ==
    LET idx == SortedIdx(df, Len(df.rows))
    IN [cols |-> df.cols, rows |-> AsSeq([k \in 1..Len(idx) |-> df.rows[idx[k]]])]

\* The frame update_shift_changes_summary writes.
SummaryFrame(data) ==
    LET df == DataFrame(SummaryRows(data))
    IN IF HasCol(df, "Quarter") THEN sort_values(df) ELSE df

\* sort_values raises KeyError when the rows carry no Role field.
SummaryRaises(data) ==
    LET df == DataFrame(SummaryRows(data))
    IN HasCol(df, "Quarter") /\ ~HasCol(df, "Role")

update_shift_changes_summary(wb, data) ==
    [wb EXCEPT !["Shift Changes"] = to_excel(SummaryFrame(data))]

\* ------------------------------------------------------------- JSON store
\* shift_data.json: absent, unreadable, or a document.
NoFile == [state |-> "absent"]
CorruptFile == [state |-> "corrupt"]
JsonFile(data) == [state |-> "ok", data |-> data]

\* A faulty store write that keeps the first quarter of the dataset only; the
\* store property must tell it from the real one.
save_first_quarter(data) == JsonFile(IF data = <<>> THEN data ELSE <<Head(data)>>)

\* json.dump then json.load give back the same keys in the same order and
\* the same numbers, strings, null and NaN.
save_data_to_json(data) == JsonFile(data)

\* load_data_from_json: the dataset after the call; a missing or unreadable
\* file leaves it as it was.
load_data_from_json(file, data) ==
    IF file.state = "ok" THEN file.data ELSE data

\* ------------------------------------------------------------------ import
\* row.to_dict()
to_dict(df, i) == AsSeq([j \in 1..Len(df.cols) |-> <<df.cols[j], df.rows[i][j]>>])

\* The dict key a Role cell gives.
RoleKey(v) == IF IsStr(v) THEN v.str ELSE "NaN"

\* quarter_dict of import_files: the rows of one sheet by role.
RECURSIVE QuarterDict(_, _)
QuarterDict(df, n) ==
    IF n = 0 THEN <<>>
    ELSE Put(QuarterDict(df, n - 1), RoleKey(Cell(df, n, "Role")), to_dict(df, n))

\* df.empty
IsEmptyFrame(df) == Len(df.rows) = 0 \/ Len(df.cols) = 0

\* A faulty pass of the import loop that takes every sheet the workbook has,
\* empty or without a Role column; the frame property must tell it from the
\* real one.
ImportQuarterUnguarded(data, book, q) ==
    LET df == read_excel(book[q])
    IN IF q \in DOMAIN book
       THEN Put(data, q, IF HasCol(df, "Role") THEN QuarterDict(df, Len(df.rows))
                         ELSE <<>>)
       ELSE data

\* One pass of the import loop: the sheet of quarter q, when it has rows and a
\* Role column, becomes the dataset's entry for q.
ImportQuarter(data, book, q) ==
    LET df == read_excel(book[q])
    IN IF q \in DOMAIN book /\ ~IsEmptyFrame(df) /\ HasCol(df, "Role")
       THEN Put(data, q, QuarterDict(df, Len(df.rows)))
       ELSE data

RECURSIVE ImportQuarters(_, _, _)
ImportQuarters(data, book, n) ==
    IF n = 0 THEN data
    ELSE ImportQuarter(ImportQuarters(data, book, n - 1), book, QUARTERS[n])

\* -------------------------------------------------------------------- delta
\* float(x) raises for text that is no number.
FloatRaises(v) == IsStr(v) /\ ~isdigit(v.str)
float(v) == IF IsStr(v) THEN Num(int(v.str)) ELSE v

\* The value of one side: 0 for a key that is missing or None, else float().
SideRaises(d, key) == HasKey(d, key) /\ FloatRaises(Get(d, key))
SideValue(d, key) ==
    IF ~HasKey(d, key) \/ Get(d, key) = None THEN Num(0) ELSE float(Get(d, key))

\* A faulty difference with the operands the wrong way round; the difference
\* property must tell it from the real one.
FloatSubReversed(a, b) == IF a = NaN \/ b = NaN THEN NaN ELSE Num(b.num - a.num)

\* Float subtraction and the percent change; NaN in gives NaN out.  A percent
\* that is no whole number is kept as the reduced fraction.
FloatSub(a, b) == IF a = NaN \/ b = NaN THEN NaN ELSE Num(a.num - b.num)

RECURSIVE Gcd(_, _)
Gcd(a, b) == IF b = 0 THEN a ELSE Gcd(b, a % b)
Abs(n) == IF n < 0 THEN -n ELSE n

Quotient100(diff, old) ==
    LET n == diff * 100
        g == Gcd(Abs(n), Abs(old))
        sgn == IF old < 0 THEN -1 ELSE 1
    IN IF Abs(old) = g THEN Num(sgn * (n \div g))
       ELSE [frac |-> <<sgn * (n \div g), Abs(old) \div g>>]

\* A faulty percent change without the guard: a division by zero gives the
\* float infinity; the zero-division property must tell it from the real one.
PercentChangeUnguarded(diff, old_val) ==
    IF diff = NaN \/ old_val = NaN THEN NaN
    ELSE IF old_val = Num(0) THEN [inf |-> TRUE]
    ELSE Quotient100(diff.num, old_val.num)

\* pct = (diff / old_val * 100) if old_val != 0 else 0
PercentChange(diff, old_val) ==
    IF old_val # Num(0)
    THEN IF diff = NaN \/ old_val = NaN THEN NaN
         ELSE Quotient100(diff.num, old_val.num)
    ELSE Num(0)

DeltaRow(role, key, data1, data2) ==
    LET old_val == SideValue(data1, key)
        new_val == SideValue(data2, key)
        diff == FloatSub(new_val, old_val)
    IN [Role |-> role, Metric |-> key, OldValue |-> old_val, NewValue |-> new_val,
        Difference |-> diff, PercentChange |-> PercentChange(diff, old_val)]

\* A faulty row loop that passes over a key the second record lacks; the
\* row-per-pair property must tell it from the real one.
RECURSIVE RoleRowsSharedKeys(_, _, _, _)
RoleRowsSharedKeys(role, keys, data1, data2) ==
    IF keys = <<>> THEN <<>>
    ELSE (IF SideRaises(data1, Head(keys)) \/ SideRaises(data2, Head(keys))
             \/ ~HasKey(data2, Head(keys))
          THEN <<>>
          ELSE <<DeltaRow(role, Head(keys), data1, data2)>>)
         \o RoleRowsSharedKeys(role, Tail(keys), data1, data2)

\* The rows of one common role: one per key of the first record whose two
\* values both pass float().
RECURSIVE RoleRows(_, _, _, _)
RoleRows(role, keys, data1, data2) ==
    IF keys = <<>> THEN <<>>
    ELSE (IF SideRaises(data1, Head(keys)) \/ SideRaises(data2, Head(keys))
          THEN <<>>
          ELSE <<DeltaRow(role, Head(keys), data1, data2)>>)
         \o RoleRows(role, Tail(keys), data1, data2)

RECURSIVE DeltaRows(_, _, _)
DeltaRows(order, roles1, roles2) ==
    IF order = <<>> THEN <<>>
    ELSE RoleRows(Head(order), Keys(Get(roles1, Head(order))),
                  Get(roles1, Head(order)), Get(roles2, Head(order)))
         \o DeltaRows(Tail(order), roles1, roles2)

\* The ways a set can be iterated.
Orders(S) == {o \in [1..Cardinality(S) -> S] : Range(o) = S}

\* set(roles1.keys()).intersection(set(roles2.keys()))
CommonRoles(data, q1, q2) == KeySet(Get(data, q1)) \cap KeySet(Get(data, q2))

NotAvailable == "One or both quarters are not available."
NoCommonData == "No common numeric data found."

\* One summary line per row: role, key, old, new, diff and percent.
SummaryLine(r) ==
    <<r.Role, r.Metric, r.OldValue, r.NewValue, r.Difference, r.PercentChange>>

\* A faulty compute_deltas_between that looks for the first quarter only; the
\* not-available property must tell it from the real one.
compute_deltas_first_only(data, q1, q2, order) ==
    IF ~HasKey(data, q1)
    THEN [summary |-> [text |-> NotAvailable], df |-> <<>>]
    ELSE LET rows == DeltaRows(order, Get(data, q1), Get(data, q2))
         IN [summary |-> IF rows = <<>> THEN [text |-> NoCommonData]
                         ELSE [lines |-> AsSeq([i \in 1..Len(rows) |-> SummaryLine(rows[i])])],
             df |-> rows]

\* A faulty compute_deltas_between that joins the summary lines whether or
\* not there are any; the summary property must tell it from the real one.
compute_deltas_no_sentinel(data, q1, q2, order) ==
    IF ~HasKey(data, q1) \/ ~HasKey(data, q2)
    THEN [summary |-> [text |-> NotAvailable], df |-> <<>>]
    ELSE LET rows == DeltaRows(order, Get(data, q1), Get(data, q2))
         IN [summary |-> [lines |-> AsSeq([i \in 1..Len(rows) |-> SummaryLine(rows[i])])],
             df |-> rows]

\* compute_deltas_between(q1, q2) on the dataset, the common roles iterated in
\* the given order: the summary and the difference rows.
compute_deltas_between(data, q1, q2, order) ==
    IF ~HasKey(data, q1) \/ ~HasKey(data, q2)
    THEN [summary |-> [text |-> NotAvailable], df |-> <<>>]
    ELSE LET rows == DeltaRows(order, Get(data, q1), Get(data, q2))
         IN [summary |-> IF rows = <<>> THEN [text |-> NoCommonData]
                         ELSE [lines |-> AsSeq([i \in 1..Len(rows) |-> SummaryLine(rows[i])])],
             df |-> rows]

\* ------------------------------------------------------------------- state
VARIABLES
    rsp_entries,                  \* floor -> metric -> text of the entry
    dock_entries,                 \* metric -> text
    dmg_entries,                  \* metric -> text
    other_entries,                \* role -> text
    rsp_total_var,                \* text of the RSP Piles total
    rsp_headcount_total_var,      \* text of the RSP headcount total
    non_rsp_headcount_total_var,  \* text of the non-RSP headcount total
    selected_quarter,             \* quarter chosen in the option menu
    shift_data,                   \* the global dataset: quarter -> role -> record
    json_file,                    \* shift_data.json on disk
    wb_exists,                    \* whether the workbook of the shift is on disk
    workbook,                     \* its sheets
    pc,                           \* position inside submit_data
    records,                      \* the batch collected by the running/last submit
    sheet_before,                 \* the quarter sheet as it was before the last write
    eos_before,                   \* the EoS sheet as it was before the last submission
    eos_state,                    \* what aggregate_data did for the batch in records
    messages,                     \* message boxes shown by the running/last handler
    delta_q1_var, delta_q2_var,   \* quarters chosen in the delta window
    delta_summary,                \* text shown by the delta window
    delta_df,                     \* rows of delta_df_global
    edits, submits, imports,      \* how many of each the run has made
    failures                      \* how many file operations have failed

form == <<rsp_entries, dock_entries, dmg_entries, other_entries, rsp_total_var,
          rsp_headcount_total_var, non_rsp_headcount_total_var>>
delta == <<delta_q1_var, delta_q2_var, delta_summary, delta_df>>
counters == <<edits, submits, imports, failures>>
vars == <<form, selected_quarter, shift_data, json_file, wb_exists, workbook, pc,
          records, sheet_before, eos_before, eos_state, messages, delta, counters>>

\* ------------------------------------------------------ files of the run
\* A dataset an earlier run left in shift_data.json.
StoredData ==
    <<<<"Q1", <<<<"Dock", <<<<"Role", Str("Dock")>>, <<"Floor", None>>,
                            <<"Headcount", Num(1)>>>>>>>>>>>>

InitialStores == {NoFile, CorruptFile, JsonFile(StoredData)}

\* Workbooks the user can pick in the import dialog beside the workbook of the
\* shift: an older export in the same folder and one in another folder.
OlderBook ==
    [create_new_workbook EXCEPT
        !["Q1"] = [cols |-> <<"Quarter", "Role", "Floor", "Headcount">>,
                   rows |-> <<<<Str("Q1"), Str("Yard"), Empty, Num(1)>>,
                              <<Str("Q1"), Str("Dock"), Empty, Empty>>>>],
        !["Q2"] = [cols |-> <<"Floor", "Headcount">>,
                   rows |-> <<<<Str("A2"), Num(1)>>>>],
        !["Q3"] = [cols |-> <<"Role", "Headcount">>, rows |-> <<>>],
        !["EoS"] = [cols |-> <<"Role", "Quarter", "Floor", "Headcount">>,
                    rows |-> <<<<Str("Dock"), Str("Q1"), Empty, Num(1)>>>>]]

OtherBook ==
    [create_new_workbook EXCEPT
        !["SoS"] = [cols |-> <<"Role", "Headcount">>,
                    rows |-> <<<<Str("GK"), Num(1)>>>>]]

\* A workbook that was not made by this program and has two sheets only.
ForeignBook ==
    [s \in {"SoS", "Summary"} |->
        IF s = "SoS"
        THEN [cols |-> <<"Role", "Headcount">>, rows |-> <<<<Str("Dock"), Num(1)>>>>]
        ELSE EmptyFrame]

ImportFileNames == {"own", "older", "other", "foreign"}
FileDir(f) == IF f \in {"other", "foreign"} THEN "elsewhere" ELSE "exports"
FileMTime(f) ==
    CASE f = "foreign" -> 0 [] f = "older" -> 1 [] f = "own" -> 2 [] f = "other" -> 3
FileBook(f, wb) ==
    CASE f = "foreign" -> ForeignBook
      [] f = "older" -> OlderBook
      [] f = "own" -> wb
      [] f = "other" -> OtherBook

\* The workbook of the shift as an earlier run of the program on the same day
\* left it: SoS submitted with a count of MaxCount in every field.
EarlierRecords ==
    LET one == ToString(MaxCount)
        rsp == [f \in Range(RSP_FLOORS) |-> [m \in Range(RSP_METRICS) |-> one]]
        dock == [m \in Range(DOCK_METRICS) |-> one]
        dmg == [m \in Range(DAMAGELAND_METRICS) |-> one]
        other == [r \in Range(OTHER_ROLES) |-> one]
    IN collect_data("SoS", rsp, dock, dmg, other,
                    ToString(RspHeadcountTotal(rsp)),
                    ToString(NonRspHeadcountTotal(dock, dmg, other)))

EarlierBook ==
    aggregate_data(save_quarter_to_excel("SoS", EarlierRecords, create_new_workbook),
                   "SoS")

\* ---------------------------------------------------------------- initial
EmptyForm ==
    /\ rsp_entries = [f \in Range(RSP_FLOORS) |-> [m \in Range(RSP_METRICS) |-> ""]]
    /\ dock_entries = [m \in Range(DOCK_METRICS) |-> ""]
    /\ dmg_entries = [m \in Range(DAMAGELAND_METRICS) |-> ""]
    /\ other_entries = [r \in Range(OTHER_ROLES) |-> ""]
    /\ rsp_total_var = "0"
    /\ rsp_headcount_total_var = "0"
    /\ non_rsp_headcount_total_var = "0"

InitRest ==
    /\ EmptyForm
    /\ selected_quarter = QUARTERS[1]
    /\ pc = "idle"
    /\ records = <<>>
    /\ sheet_before = EmptyFrame
    /\ eos_before = EmptyFrame
    /\ eos_state = "none"
    /\ messages = {}
    /\ delta_q1_var = QUARTERS[1]
    /\ delta_q2_var = QUARTERS[2]
    /\ delta_summary = [text |-> ""]
    /\ delta_df = <<>>
    /\ edits = 0 /\ submits = 0 /\ imports = 0 /\ failures = 0

Init ==
    /\ shift_data = <<>>
    /\ json_file \in InitialStores
    /\ wb_exists \in BOOLEAN
    /\ workbook = IF wb_exists THEN EarlierBook ELSE create_new_workbook
    /\ InitRest

\* ------------------------------------------------------------ form actions
\* The user changes one entry; the write trace of a Headcount or Piles entry
\* recomputes the totals.
HeadcountTrace(rsp, dock, dmg, other) ==
    /\ rsp_headcount_total_var' = ToString(RspHeadcountTotal(rsp))
    /\ non_rsp_headcount_total_var' = ToString(NonRspHeadcountTotal(dock, dmg, other))

EditRsp(floor, metric, text) ==
    /\ pc = "idle" /\ edits < MaxEdits
    /\ rsp_entries[floor][metric] # text
    /\ rsp_entries' = [rsp_entries EXCEPT ![floor][metric] = text]
    /\ IF metric = "Headcount"
       THEN /\ HeadcountTrace([rsp_entries EXCEPT ![floor][metric] = text],
                              dock_entries, dmg_entries, other_entries)
            /\ UNCHANGED rsp_total_var
       ELSE IF metric = "Piles"
       THEN /\ rsp_total_var' =
                  ToString(RspPilesTotal([rsp_entries EXCEPT ![floor][metric] = text]))
            /\ UNCHANGED <<rsp_headcount_total_var, non_rsp_headcount_total_var>>
       ELSE UNCHANGED <<rsp_total_var, rsp_headcount_total_var,
                        non_rsp_headcount_total_var>>
    /\ edits' = edits + 1
    /\ UNCHANGED <<dock_entries, dmg_entries, other_entries, selected_quarter,
                   shift_data, json_file, wb_exists, workbook, pc, records, sheet_before, eos_before,
                   eos_state, messages, delta, submits, imports, failures>>

EditDock(metric, text) ==
    /\ pc = "idle" /\ edits < MaxEdits
    /\ dock_entries[metric] # text
    /\ dock_entries' = [dock_entries EXCEPT ![metric] = text]
    /\ IF metric = "Headcount"
       THEN HeadcountTrace(rsp_entries, [dock_entries EXCEPT ![metric] = text],
                           dmg_entries, other_entries)
       ELSE UNCHANGED <<rsp_headcount_total_var, non_rsp_headcount_total_var>>
    /\ edits' = edits + 1
    /\ UNCHANGED <<rsp_entries, dmg_entries, other_entries, rsp_total_var,
                   selected_quarter, shift_data, json_file, wb_exists, workbook,
                   pc, records, sheet_before, eos_before,
                   eos_state, messages, delta, submits, imports, failures>>

EditDmg(metric, text) ==
    /\ pc = "idle" /\ edits < MaxEdits
    /\ dmg_entries[metric] # text
    /\ dmg_entries' = [dmg_entries EXCEPT ![metric] = text]
    /\ IF metric = "Headcount"
       THEN HeadcountTrace(rsp_entries, dock_entries,
                           [dmg_entries EXCEPT ![metric] = text], other_entries)
       ELSE UNCHANGED <<rsp_headcount_total_var, non_rsp_headcount_total_var>>
    /\ edits' = edits + 1
    /\ UNCHANGED <<rsp_entries, dock_entries, other_entries, rsp_total_var,
                   selected_quarter, shift_data, json_file, wb_exists, workbook,
                   pc, records, sheet_before, eos_before,
                   eos_state, messages, delta, submits, imports, failures>>

EditOther(role, text) ==
    /\ pc = "idle" /\ edits < MaxEdits
    /\ other_entries[role] # text
    /\ other_entries' = [other_entries EXCEPT ![role] = text]
    /\ HeadcountTrace(rsp_entries, dock_entries, dmg_entries,
                      [other_entries EXCEPT ![role] = text])
    /\ edits' = edits + 1
    /\ UNCHANGED <<rsp_entries, dock_entries, dmg_entries, rsp_total_var,
                   selected_quarter, shift_data, json_file, wb_exists, workbook,
                   pc, records, sheet_before, eos_before,
                   eos_state, messages, delta, submits, imports, failures>>

SelectQuarter(q) ==
    /\ pc = "idle" /\ submits < MaxSubmits
    /\ q # selected_quarter
    /\ selected_quarter' = q
    /\ UNCHANGED <<form, shift_data, json_file, wb_exists, workbook, pc, records, sheet_before, eos_before,
                   eos_state, messages, delta, counters>>

\* clear_fields: every entry emptied, the three totals back to "0".
clear_fields ==
    /\ rsp_entries' = [f \in Range(RSP_FLOORS) |-> [m \in Range(RSP_METRICS) |-> ""]]
    /\ dock_entries' = [m \in Range(DOCK_METRICS) |-> ""]
    /\ dmg_entries' = [m \in Range(DAMAGELAND_METRICS) |-> ""]
    /\ other_entries' = [r \in Range(OTHER_ROLES) |-> ""]
    /\ rsp_total_var' = "0"
    /\ rsp_headcount_total_var' = "0"
    /\ non_rsp_headcount_total_var' = "0"

\* ------------------------------------------------------------- submit_data
\* submit_data runs as one handler; its steps are the file operations, each of
\* which can fail (file locked, disk error).  No other handler runs between
\* two steps.

\* The workbook submit_data works on: created first when it is not on disk.
CurrentBook == IF wb_exists THEN workbook ELSE create_new_workbook

CollectedRecords ==
    collect_data(selected_quarter, rsp_entries, dock_entries, dmg_entries,
                 other_entries, rsp_headcount_total_var, non_rsp_headcount_total_var)

\* A faulty submit_data that writes the quarter sheet, the EoS sheet and the
\* Shift Changes sheet in one save of the document; the sheet-by-sheet
\* property must tell it from the real one.
SubmitSaveWholeDocument ==
    /\ pc = "idle" /\ submits < MaxSubmits
    /\ records' = CollectedRecords
    /\ sheet_before' = CurrentBook[selected_quarter]
    /\ eos_before' = CurrentBook["EoS"]
    /\ wb_exists' = TRUE
    /\ workbook' = update_shift_changes_summary(
                       aggregate_data(save_quarter_to_excel(selected_quarter,
                                                            CollectedRecords, CurrentBook),
                                      selected_quarter),
                       shift_data)
    /\ eos_state' = "stale"
    /\ messages' = {}
    /\ pc' = "aggregate"
    /\ submits' = submits + 1
    /\ UNCHANGED <<form, selected_quarter, shift_data, json_file, delta, edits, imports, failures>>

\* collect_data, create_new_workbook when needed, save_quarter_to_excel.
SubmitSave ==
    /\ pc = "idle" /\ submits < MaxSubmits
    /\ records' = CollectedRecords
    /\ sheet_before' = CurrentBook[selected_quarter]
    /\ eos_before' = CurrentBook["EoS"]
    /\ wb_exists' = TRUE
    /\ workbook' = save_quarter_to_excel(selected_quarter, CollectedRecords, CurrentBook)
    /\ eos_state' = "stale"
    /\ messages' = {}
    /\ pc' = "aggregate"
    /\ submits' = submits + 1
    /\ UNCHANGED <<form, selected_quarter, shift_data, json_file, delta, edits, imports, failures>>

\* A faulty handling of a failed sheet write that shows the error and goes
\* on with the submission; the stop property must tell it from the real one.
SubmitSaveFailsContinuing ==
    /\ failures < MaxFailures
    /\ failures' = failures + 1
    /\ pc = "idle" /\ submits < MaxSubmits
    /\ records' = CollectedRecords
    /\ sheet_before' = CurrentBook[selected_quarter]
    /\ eos_before' = CurrentBook["EoS"]
    /\ wb_exists' = TRUE
    /\ workbook' = CurrentBook
    /\ eos_state' = "stale"
    /\ messages' = {"Failed to save data to Excel"}
    /\ pc' = "aggregate"
    /\ submits' = submits + 1
    /\ UNCHANGED <<form, selected_quarter, shift_data, json_file, delta, edits, imports>>

\* The sheet write raises: the error is shown and submit_data returns.  The
\* sheet is as it was when the document could not be opened, and without rows
\* when the write failed after the old sheet was removed.
SubmitSaveFails ==
    /\ failures < MaxFailures
    /\ failures' = failures + 1
    /\ pc = "idle" /\ submits < MaxSubmits
    /\ records' = CollectedRecords
    /\ sheet_before' = CurrentBook[selected_quarter]
    /\ eos_before' = CurrentBook["EoS"]
    /\ wb_exists' = TRUE
    /\ workbook' \in {CurrentBook, [CurrentBook EXCEPT ![selected_quarter] = EmptyFrame]}
    /\ eos_state' = "stale"
    /\ messages' = {"Failed to save data to Excel"}
    /\ submits' = submits + 1
    /\ UNCHANGED <<form, selected_quarter, shift_data, json_file, pc, delta, edits,
                   imports>>

\* aggregate_data(file_path, current_quarter)
AggregateStep ==
    /\ pc = "aggregate"
    /\ workbook' = aggregate_data(workbook, selected_quarter)
    /\ IF selected_quarter = "EoS"
       THEN eos_state' = "passthrough" /\ UNCHANGED messages
       ELSE IF AggregateRaises(workbook)
       THEN eos_state' = "failed" /\ messages' = messages \cup {"Aggregation failed"}
       ELSE eos_state' = "aggregated" /\ UNCHANGED messages
    /\ pc' = "summary"
    /\ UNCHANGED <<form, selected_quarter, shift_data, json_file, wb_exists, records, sheet_before, eos_before,
                   delta, counters>>

\* A faulty handling of that failure, which lets it end submit_data on the
\* rollup path as well; the containment property must tell it from the real
\* one.
AggregateFailsAborting ==
    /\ failures < MaxFailures
    /\ failures' = failures + 1
    /\ pc = "aggregate"
    /\ eos_state' = "failed"
    /\ pc' = "idle"
    /\ messages' = messages \cup {"unhandled exception"}
    /\ UNCHANGED <<form, selected_quarter, shift_data, json_file, wb_exists, workbook,
                   records, sheet_before, eos_before, delta, edits, submits, imports>>

\* A file operation of aggregate_data raises.  On the rollup path the error is
\* caught and shown; on the EoS path nothing catches it and submit_data ends.
AggregateFails ==
    /\ failures < MaxFailures
    /\ failures' = failures + 1
    /\ pc = "aggregate"
    /\ eos_state' = "failed"
    /\ IF selected_quarter = "EoS"
       THEN pc' = "idle" /\ messages' = messages \cup {"unhandled exception"}
       ELSE pc' = "summary" /\ messages' = messages \cup {"Aggregation failed"}
    /\ UNCHANGED <<form, selected_quarter, shift_data, json_file, wb_exists, workbook,
                   records, sheet_before, eos_before, delta, edits, submits, imports>>

\* update_shift_changes_summary(file_path)
SummaryStep ==
    /\ pc = "summary"
    /\ IF SummaryRaises(shift_data)
       THEN /\ pc' = "idle"
            /\ messages' = messages \cup {"unhandled exception"}
            /\ UNCHANGED workbook
       ELSE /\ workbook' = update_shift_changes_summary(workbook, shift_data)
            /\ pc' = "adjust"
            /\ UNCHANGED messages
    /\ UNCHANGED <<form, selected_quarter, shift_data, json_file, wb_exists, records, sheet_before, eos_before,
                   eos_state, delta, counters>>

SummaryFails ==
    /\ failures < MaxFailures
    /\ failures' = failures + 1
    /\ pc = "summary"
    /\ pc' = "idle"
    /\ messages' = messages \cup {"unhandled exception"}
    /\ UNCHANGED <<form, selected_quarter, shift_data, json_file, wb_exists, workbook,
                   records, sheet_before, eos_before, eos_state, delta, edits, submits, imports>>

\* adjust_excel_columns(file_path): column widths only, no cell changes.
AdjustStep ==
    /\ pc = "adjust"
    /\ pc' = "finish"
    /\ UNCHANGED <<form, selected_quarter, shift_data, json_file, wb_exists, workbook,
                   records, sheet_before, eos_before, eos_state, messages, delta, counters>>

AdjustFails ==
    /\ failures < MaxFailures
    /\ failures' = failures + 1
    /\ pc = "adjust"
    /\ pc' = "idle"
    /\ messages' = messages \cup {"unhandled exception"}
    /\ UNCHANGED <<form, selected_quarter, shift_data, json_file, wb_exists, workbook,
                   records, sheet_before, eos_before, eos_state, delta, edits, submits, imports>>

\* The success box, load_data_from_json(), clear_fields().
SubmitFinish ==
    /\ pc = "finish"
    /\ shift_data' = load_data_from_json(json_file, shift_data)
    /\ messages' = messages \cup {"Success"}
                   \cup (IF json_file = CorruptFile THEN {"Could not load JSON data"}
                         ELSE {})
    /\ clear_fields
    /\ pc' = "idle"
    /\ UNCHANGED <<selected_quarter, json_file, wb_exists, workbook, records, sheet_before, eos_before,
                   eos_state, delta, counters>>

\* ------------------------------------------------------------ import_files
\* A faulty folder check that accepts every selection; the validation property
\* must tell it from the real one.
SameFolderUnchecked(files) == TRUE

\* len(set(os.path.dirname(f) for f in files)) != 1 is the error case.
SameFolder(files) == Cardinality({FileDir(f) : f \in files}) = 1
LatestFile(files) ==
    CHOOSE f \in files : \A g \in files : FileMTime(g) <= FileMTime(f)

\* The dataset after the import loop over the sheets of the newest file.
ImportedData(files) ==
    ImportQuarters(shift_data, FileBook(LatestFile(files), workbook), Len(QUARTERS))

\* import_files with the chosen files: the folder check, then the sheets of
\* the newest file, then the store is rewritten.
ImportFiles(files) ==
    /\ pc = "idle" /\ imports < MaxImports
    /\ files # {}
    /\ "own" \in files => wb_exists
    /\ IF ~SameFolder(files)
       THEN /\ messages' = {"Please select files from the same folder."}
            /\ UNCHANGED <<shift_data, json_file>>
       ELSE /\ shift_data' = ImportedData(files)
            /\ json_file' = save_data_to_json(ImportedData(files))
            /\ messages' = {"Import Successful"}
    /\ imports' = imports + 1
    /\ UNCHANGED <<form, selected_quarter, wb_exists, workbook, pc, records, sheet_before, eos_before,
                   eos_state, delta, edits, submits, failures>>

\* The import loop completes and save_data_to_json cannot write the store:
\* it shows its own error and returns, and import_files shows its success
\* box.  The store is as it was (open failed) or truncated (dump failed).
ImportFilesSaveFails(files) ==
    /\ pc = "idle" /\ imports < MaxImports
    /\ failures < MaxFailures
    /\ files # {}
    /\ "own" \in files => wb_exists
    /\ SameFolder(files)
    /\ shift_data' = ImportedData(files)
    /\ json_file' \in {json_file, CorruptFile}
    /\ messages' = {"Could not save JSON data", "Import Successful"}
    /\ imports' = imports + 1
    /\ failures' = failures + 1
    /\ UNCHANGED <<form, selected_quarter, wb_exists, workbook, pc, records,
                   sheet_before, eos_before, eos_state, delta, edits, submits>>

\* A faulty failure path that puts the dataset back as it was before the
\* import; the partial-import property must tell it from the real one.
ImportFilesFailRestoring(files, k) ==
    /\ pc = "idle" /\ imports < MaxImports
    /\ failures < MaxFailures
    /\ files # {}
    /\ "own" \in files => wb_exists
    /\ SameFolder(files)
    /\ messages' = {"Failed to import file"}
    /\ imports' = imports + 1
    /\ failures' = failures + 1
    /\ UNCHANGED <<form, selected_quarter, shift_data, json_file, wb_exists, workbook, pc,
                   records, sheet_before, eos_before, eos_state, delta, edits, submits>>

\* The try block of import_files raises while the workbook is opened (k = 0)
\* or while the sheet of the quarter after the first k is read: the quarters
\* before it are already in the dataset, the store is not rewritten.
ImportFilesFail(files, k) ==
    /\ pc = "idle" /\ imports < MaxImports
    /\ failures < MaxFailures
    /\ files # {}
    /\ "own" \in files => wb_exists
    /\ SameFolder(files)
    /\ shift_data' = ImportQuarters(shift_data, FileBook(LatestFile(files), workbook), k)
    /\ messages' = {"Failed to import file"}
    /\ imports' = imports + 1
    /\ failures' = failures + 1
    /\ UNCHANGED <<form, selected_quarter, json_file, wb_exists, workbook, pc, records,
                   sheet_before, eos_before, eos_state, delta, edits, submits>>

\* ------------------------------------------------------------ delta window
\* generate_delta of the delta window.
GenerateDelta(q1, q2) ==
    /\ pc = "idle"
    /\ \E order \in (IF HasKey(shift_data, q1) /\ HasKey(shift_data, q2)
                     THEN Orders(CommonRoles(shift_data, q1, q2)) ELSE {<<>>}) :
          LET res == compute_deltas_between(shift_data, q1, q2, order)
          IN /\ delta_summary' = res.summary
             /\ delta_df' = res.df
    /\ delta_q1_var' = q1
    /\ delta_q2_var' = q2
    /\ UNCHANGED <<form, selected_quarter, shift_data, json_file, wb_exists, workbook,
                   pc, records, sheet_before, eos_before, eos_state, messages, counters>>

\* ------------------------------------------ the functions called directly
\* Largest metric value of a stored record.
MaxMetric == 3

\* Values a stored record holds for a metric: a number, null, the NaN of an
\* empty imported cell, or text.
MetricValues == {Num(n) : n \in 0..MaxMetric} \cup {None, NaN, Str("x")}

\* A stored record of a role with one metric, and the same with a second one.
RoleRecord(role, v) == <<<<"Role", Str(role)>>, <<"Headcount", v>>>>
WithPiles(rec, v) == Append(rec, <<"Piles", v>>)

\* A dataset entry: the quarter key and its records by role.
OneRole(q, a) == <<q, <<<<a, RoleRecord(a, Num(1))>>>>>>
TwoRoles(q, a, b) ==
    <<q, <<<<a, RoleRecord(a, Num(1))>>, <<b, RoleRecord(b, Num(2))>>>>>>

\* One role under SoS and Q1, for every pair of values.
ValueDatasets ==
    {<<<<"SoS", <<<<"Dock", RoleRecord("Dock", v1)>>>>>>,
       <<"Q1", <<<<"Dock", RoleRecord("Dock", v2)>>>>>>>> :
        v1 \in MetricValues, v2 \in MetricValues}

\* The same role with a metric that only one of the two quarters may hold.
KeyRecords ==
    {RoleRecord("Dock", Num(1)),
     WithPiles(RoleRecord("Dock", Num(1)), Num(2)),
     WithPiles(RoleRecord("Dock", None), None)}

KeyDatasets ==
    {<<<<"SoS", <<<<"Dock", r1>>>>>>, <<"Q1", <<<<"Dock", r2>>>>>>>> :
        r1 \in KeyRecords, r2 \in KeyRecords}

\* Keys a stored dataset can carry: quarters, and a key that is no quarter.
StoredKeys == {"SoS", "Q1", "EoS", "Q9"}

\* Two quarters in either insertion order, with roles in unsorted order and
\* roles that only one quarter holds.
RoleDatasets ==
    {<<TwoRoles(k[1], "GK", "Dock"),
       CASE shape = 1 -> OneRole(k[2], "Dock")
         [] shape = 2 -> TwoRoles(k[2], "Dock", "GK")
         [] shape = 3 -> TwoRoles(k[2], "Yard", "GK")>> :
        k \in {kk \in StoredKeys \X StoredKeys : kk[1] # kk[2]}, shape \in 1..3}

\* Four quarters stored out of order, with a record that names another
\* quarter than its key, one whose Quarter is no quarter, and one without Role.
SortDataset ==
    <<OneRole("EoS", "Dock"),
      TwoRoles("Q9", "GK", "Dock"),
      <<"Q2", <<<<"Yard", <<<<"Quarter", Str("SoS")>>, <<"Role", Str("Yard")>>,
                             <<"Headcount", Num(1)>>>>>>,
                <<"GK", <<<<"Quarter", NaN>>, <<"Role", Str("GK")>>>>>>,
                <<"NaN", <<<<"Headcount", Num(2)>>>>>>>>>>,
      TwoRoles("SoS", "Yard", "Dock")>>

\* Dock with a headcount of 10 at the start of the shift and 12 in Q1.
ExampleDataset ==
    <<<<"SoS", <<<<"Dock", RoleRecord("Dock", Num(10))>>>>>>,
      <<"Q1", <<<<"Dock", RoleRecord("Dock", Num(12))>>>>>>>>

\* A dataset whose records carry no Role field at all.
NoRoleDataset == <<<<"SoS", <<<<"Dock", <<<<"Headcount", Num(1)>>>>>>>>>>>>

EngineDatasets ==
    {<<>>, SortDataset, NoRoleDataset, ExampleDataset}
    \cup ValueDatasets \cup KeyDatasets \cup RoleDatasets
    \cup {ImportQuarters(<<>>, book, Len(QUARTERS)) : book \in {OlderBook, OtherBook}}

\* The dataset is any stored dataset; the workbook of the shift is new.
InitEngine ==
    /\ shift_data \in EngineDatasets
    /\ json_file = save_data_to_json(shift_data)
    /\ wb_exists = TRUE
    /\ workbook = create_new_workbook
    /\ InitRest

\* update_shift_changes_summary(file_path) on the dataset.
RebuildSummary ==
    /\ pc = "idle" /\ wb_exists
    /\ IF SummaryRaises(shift_data)
       THEN /\ messages' = {"unhandled exception"}
            /\ UNCHANGED workbook
       ELSE /\ workbook' = update_shift_changes_summary(workbook, shift_data)
            /\ messages' = {}
    /\ UNCHANGED <<form, selected_quarter, shift_data, json_file, wb_exists, pc,
                   records, sheet_before, eos_before, eos_state, delta, counters>>

NextEngine ==
    \/ \E q1 \in Range(QUARTERS), q2 \in Range(QUARTERS) : GenerateDelta(q1, q2)
    \/ RebuildSummary

SpecEngine == InitEngine /\ [][NextEngine]_vars

\* Record batches handed to save_quarter_to_excel: records with different key
\* sets, with and without a Quarter field, and the empty batch.
RecordBatches ==
    {<<>>,
     <<RoleRecord("Dock", Num(1))>>,
     <<RoleRecord("GK", None), WithPiles(RoleRecord("Dock", Num(1)), Num(2))>>,
     <<<<<<"Role", Str("GK")>>, <<"Piles", Num(1)>>>>,
       RoleRecord("Dock", Num(2)),
       <<<<"Quarter", Str("Q1")>>, <<"Role", Str("Yard")>>, <<"Floor", Str("")>>>>>>,
     <<<<<<"Quarter", Str("EoS")>>, <<"Role", Str("Dock")>>, <<"Headcount", Num(3)>>>>,
       <<<<"Quarter", Str("EoS")>>, <<"Role", Str("GK")>>, <<"Headcount", None>>>>>>}

InitSheet ==
    /\ shift_data = <<>>
    /\ json_file = NoFile
    /\ wb_exists = TRUE
    /\ workbook = create_new_workbook
    /\ InitRest

\* save_quarter_to_excel(quarter, records, file_path) on the workbook.
SaveQuarter(q, recs) ==
    /\ pc = "idle" /\ wb_exists /\ submits < MaxSubmits
    /\ selected_quarter' = q
    /\ records' = recs
    /\ sheet_before' = workbook[q]
    /\ eos_before' = workbook["EoS"]
    /\ workbook' = save_quarter_to_excel(q, recs, workbook)
    /\ submits' = submits + 1
    /\ UNCHANGED <<form, shift_data, json_file, wb_exists, pc, eos_state, messages,
                   delta, edits, imports, failures>>

NextSheet == \E q \in Range(QUARTERS), recs \in RecordBatches : SaveQuarter(q, recs)

SpecSheet == InitSheet /\ [][NextSheet]_vars

\* aggregate_data called on workbooks that two sheet writes have left.
ResolveDocuments ==
    {save_quarter_to_excel(q2, b2, save_quarter_to_excel(q1, b1, create_new_workbook)) :
        q1 \in Range(QUARTERS), q2 \in Range(QUARTERS),
        b1 \in RecordBatches, b2 \in RecordBatches}

InitResolve ==
    /\ shift_data = <<>>
    /\ json_file = NoFile
    /\ wb_exists = TRUE
    /\ workbook \in ResolveDocuments
    /\ InitRest

\* aggregate_data(file_path, current_quarter) on the workbook.
ResolveEoS(q) ==
    /\ pc = "idle" /\ wb_exists
    /\ selected_quarter' = q
    /\ sheet_before' = workbook["EoS"]
    /\ eos_before' = workbook["EoS"]
    /\ workbook' = aggregate_data(workbook, q)
    /\ IF q = "EoS"
       THEN eos_state' = "passthrough" /\ messages' = {}
       ELSE IF AggregateRaises(workbook)
       THEN eos_state' = "failed" /\ messages' = {"Aggregation failed"}
       ELSE eos_state' = "aggregated" /\ messages' = {}
    /\ UNCHANGED <<form, shift_data, json_file, wb_exists, pc, records, delta, counters>>

NextResolve == \E q \in Range(QUARTERS) : ResolveEoS(q)

SpecResolve == InitResolve /\ [][NextResolve]_vars

\* The entry form after any edits: every field holds any text, and the three
\* totals are what the write traces of the Headcount and Piles fields left.
\* One more edit, the choice between the first two quarters, and submissions
\* that run to their end.
InitForm ==
    /\ rsp_entries \in [Range(RSP_FLOORS) -> [Range(RSP_METRICS) -> FieldTexts]]
    /\ dock_entries \in [Range(DOCK_METRICS) -> FieldTexts]
    /\ dmg_entries \in [Range(DAMAGELAND_METRICS) -> FieldTexts]
    /\ other_entries \in [Range(OTHER_ROLES) -> FieldTexts]
    /\ rsp_total_var = ToString(RspPilesTotal(rsp_entries))
    /\ rsp_headcount_total_var = ToString(RspHeadcountTotal(rsp_entries))
    /\ non_rsp_headcount_total_var =
          ToString(NonRspHeadcountTotal(dock_entries, dmg_entries, other_entries))
    /\ selected_quarter = QUARTERS[1]
    /\ shift_data = <<>>
    /\ json_file = NoFile
    /\ wb_exists \in BOOLEAN
    /\ workbook = IF wb_exists THEN EarlierBook ELSE create_new_workbook
    /\ pc = "idle"
    /\ records = <<>>
    /\ sheet_before = EmptyFrame
    /\ eos_before = EmptyFrame
    /\ eos_state = "none"
    /\ messages = {}
    /\ delta_q1_var = QUARTERS[1]
    /\ delta_q2_var = QUARTERS[2]
    /\ delta_summary = [text |-> ""]
    /\ delta_df = <<>>
    /\ edits = 0 /\ submits = 0 /\ imports = 0 /\ failures = 0

NextForm ==
    \/ \E f \in Range(RSP_FLOORS), m \in Range(RSP_METRICS), t \in FieldTexts :
          EditRsp(f, m, t)
    \/ \E m \in Range(DOCK_METRICS), t \in FieldTexts : EditDock(m, t)
    \/ \E m \in Range(DAMAGELAND_METRICS), t \in FieldTexts : EditDmg(m, t)
    \/ \E r \in Range(OTHER_ROLES), t \in FieldTexts : EditOther(r, t)
    \/ \E q \in {QUARTERS[1], QUARTERS[2]} : SelectQuarter(q)
    \/ SubmitSave
    \/ AggregateStep
    \/ SummaryStep
    \/ AdjustStep
    \/ SubmitFinish

SpecForm == InitForm /\ [][NextForm]_vars

\* import_files on a dataset loaded from the store, with the workbook of the
\* shift on disk, and submissions of the empty form before or after it.  A
\* dataset that holds data has its store; the empty dataset is also that of a
\* start without a store or with an unreadable one.
ImportDatasets == {<<>>, StoredData, SortDataset} \cup RoleDatasets

InitImport ==
    /\ shift_data \in ImportDatasets
    /\ json_file \in {save_data_to_json(shift_data)}
                    \cup (IF shift_data = <<>> THEN {NoFile, CorruptFile} ELSE {})
    /\ wb_exists = TRUE
    /\ workbook \in {create_new_workbook, EarlierBook}
    /\ InitRest

NextImport ==
    \/ \E files \in SUBSET ImportFileNames : ImportFiles(files)
    \/ \E files \in SUBSET ImportFileNames, k \in 0..(Len(QUARTERS) - 1) :
          ImportFilesFail(files, k)
    \/ \E files \in SUBSET ImportFileNames : ImportFilesSaveFails(files)
    \/ SubmitSave
    \/ SubmitSaveFails
    \/ AggregateStep
    \/ AggregateFails
    \/ SummaryStep
    \/ SummaryFails
    \/ AdjustStep
    \/ AdjustFails
    \/ SubmitFinish

SpecImport == InitImport /\ [][NextImport]_vars

\* ----------------------------------------------------------- specification
\* The entry form and submit_data.  The delta window and the Shift Changes
\* rebuild run on stored datasets under SpecEngine, save_quarter_to_excel on
\* arbitrary batches under SpecSheet.
Next ==
    \/ \E f \in Range(RSP_FLOORS), m \in Range(RSP_METRICS), t \in FieldTexts :
          EditRsp(f, m, t)
    \/ \E m \in Range(DOCK_METRICS), t \in FieldTexts : EditDock(m, t)
    \/ \E m \in Range(DAMAGELAND_METRICS), t \in FieldTexts : EditDmg(m, t)
    \/ \E r \in Range(OTHER_ROLES), t \in FieldTexts : EditOther(r, t)
    \/ \E q \in Range(QUARTERS) : SelectQuarter(q)
    \/ SubmitSave
    \/ SubmitSaveFails
    \/ AggregateStep
    \/ AggregateFails
    \/ SummaryStep
    \/ SummaryFails
    \/ AdjustStep
    \/ AdjustFails
    \/ SubmitFinish

Spec == Init /\ [][Next]_vars

\* ---------------------------------------------------------------- properties
\* What a sheet shows for the key c of a record: its value, or a blank cell
\* when the record has no such key or holds None or the empty text.
Written(rec, c) ==
    IF HasKey(rec, c) /\ Get(rec, c) # None /\ Get(rec, c) # Str("")
    THEN Get(rec, c) ELSE Empty

AllKeys(recs) == UNION {KeySet(recs[i]) : i \in 1..Len(recs)}

\* The sheet holds the records row by row under the given columns.
SheetHolds(sheet, recs, columns) ==
    /\ Len(sheet.rows) = Len(recs)
    /\ Range(sheet.cols) = columns
    /\ Len(sheet.cols) = Cardinality(columns)
    /\ \A i \in 1..Len(recs) : \A j \in 1..Len(sheet.cols) :
          sheet.rows[i][j] = Written(recs[i], sheet.cols[j])

\* Rows and roles of a sheet.
RowsOf(sheet, role) ==
    {i \in 1..Len(sheet.rows) : HasCol(sheet, "Role") /\ Cell(sheet, i, "Role") = Str(role)}

RolesOf(sheet) ==
    {Cell(sheet, i, "Role").str :
        i \in {k \in 1..Len(sheet.rows) : HasCol(sheet, "Role") /\ IsStr(Cell(sheet, k, "Role"))}}

\* The sum of the numbers a sheet holds for a role under column c, a blank or
\* absent cell counting as 0.
SheetTotal(sheet, role, c) ==
    IF ~HasCol(sheet, "Role") \/ ~HasCol(sheet, c) THEN 0
    ELSE LET r == ColIndex(sheet.cols, "Role")
             k == ColIndex(sheet.cols, c)
         IN SumSeq(AsSeq([i \in 1..Len(sheet.rows) |->
                      IF sheet.rows[i][r] = Str(role) /\ IsNum(sheet.rows[i][k])
                      THEN sheet.rows[i][k].num ELSE 0]))

RollupTotal(wb, role, c) ==
    SheetTotal(wb["SoS"], role, c) + SheetTotal(wb["Q1"], role, c)
    + SheetTotal(wb["Q2"], role, c) + SheetTotal(wb["Q3"], role, c)

\* Columns of SoS..Q3 that hold counts: no cell of them is text.
NumericColumns(wb) ==
    {c \in UNION {Range(wb[q].cols) : q \in {"SoS", "Q1", "Q2", "Q3"}} :
        \A q \in {"SoS", "Q1", "Q2", "Q3"} : \A i \in 1..Len(wb[q].rows) :
            ~IsStr(Cell(wb[q], i, c))}

EoSCell(wb, role, c) ==
    Cell(wb["EoS"], CHOOSE i \in RowsOf(wb["EoS"], role) : TRUE, c)

\* C1: once aggregate_data has run for a submission of SoS, Q1, Q2 or Q3, the
\* EoS sheet has one row for every role of the SoS..Q3 sheets, and each count
\* column of that row is the sum of the role's values over the current
\* contents of those sheets, a blank counting as 0.
C1_EoSIsRollup ==
    eos_state = "aggregated" =>
        LET counts == NumericColumns(workbook)
            eos == workbook["EoS"]
        IN \A role \in UNION {RolesOf(workbook[q]) : q \in {"SoS", "Q1", "Q2", "Q3"}} :
              /\ Cardinality(RowsOf(eos, role)) = 1
              /\ \A c \in counts :
                    EoSCell(workbook, role, c) = Num(RollupTotal(workbook, role, c))

\* The rollup has summed the Dock headcount of more than one sheet.
C1_Witness ==
    /\ eos_state = "aggregated"
    /\ RowsOf(workbook["EoS"], "Dock") # {}
    /\ IsNum(EoSCell(workbook, "Dock", "Headcount"))
    /\ EoSCell(workbook, "Dock", "Headcount").num > MaxCount

\* C2: once aggregate_data has run for a submission of EoS, the EoS sheet holds
\* exactly the submitted records, one row per record, without the Quarter
\* column, and nothing summed from SoS..Q3.
C2_EoSPassthrough ==
    eos_state = "passthrough" =>
        SheetHolds(workbook["EoS"], records, AllKeys(records) \ {"Quarter"})

\* EoS was submitted with a blank Dock headcount while SoS..Q3 hold one.
C2_Witness ==
    /\ eos_state = "passthrough"
    /\ RollupTotal(workbook, "Dock", "Headcount") > 0
    /\ RowsOf(workbook["EoS"], "Dock") # {}
    /\ EoSCell(workbook, "Dock", "Headcount") = Empty

\* C3 as stated: after a submission and its aggregate_data, none of SoS, Q1,
\* Q2, Q3 and EoS has a Quarter column, and those that were written have the
\* same columns.
C3_SameShapeNoQuarter ==
    eos_state \in {"aggregated", "passthrough"} =>
        /\ \A q \in Range(QUARTERS) : ~HasCol(workbook[q], "Quarter")
        /\ \A q1 \in Range(QUARTERS), q2 \in Range(QUARTERS) :
              workbook[q1].cols # <<>> /\ workbook[q2].cols # <<>>
                  => Range(workbook[q1].cols) = Range(workbook[q2].cols)

\* C4: after save_quarter_to_excel the sheet of the quarter holds exactly the
\* records, one row per record in their order, under the union of the record
\* keys, less Quarter when the quarter is EoS; nothing of the sheet's earlier
\* contents is left.
C4_SheetReplaced ==
    submits > 0 =>
        SheetHolds(workbook[selected_quarter], records,
                   IF selected_quarter = "EoS" THEN AllKeys(records) \ {"Quarter"}
                   ELSE AllKeys(records))

\* C4 as stated: the columns are the union of all record keys for every
\* quarter.
C4_ColumnsAreAllKeys ==
    submits > 0 => SheetHolds(workbook[selected_quarter], records, AllKeys(records))

\* EoS was written with records that carry a Quarter field, over a sheet
\* that held a role the new records lack.
C4_Witness ==
    /\ submits > 0
    /\ selected_quarter = "EoS"
    /\ "Quarter" \in AllKeys(records)
    /\ \E role \in RolesOf(sheet_before) : role \notin RolesOf(workbook["EoS"])

\* A submission that ran to its Success box.
Submitted == pc = "idle" /\ "Success" \in messages

\* C5 as stated: after a successful submission the dataset holds every
\* submitted record under its quarter and role, and the JSON store holds the
\* dataset.
C5_DatasetHoldsBatch ==
    Submitted =>
        /\ json_file = JsonFile(shift_data)
        /\ \A i \in 1..Len(records) :
              LET q == Get(records[i], "Quarter").str
                  role == Get(records[i], "Role").str
              IN /\ HasKey(shift_data, q)
                 /\ HasKey(Get(shift_data, q), role)
                 /\ Get(Get(shift_data, q), role) = records[i]

\* C6 as stated: after a successful submission the Shift Changes sheet has a
\* row for the quarter and role of every record just submitted.
C6_SummaryHasBatch ==
    Submitted =>
        \A i \in 1..Len(records) :
            \E k \in 1..Len(workbook["Shift Changes"].rows) :
                /\ Cell(workbook["Shift Changes"], k, "Quarter") = Get(records[i], "Quarter")
                /\ Cell(workbook["Shift Changes"], k, "Role") = Get(records[i], "Role")

\* The rank of a Quarter cell of the Shift Changes sheet.
RankOf(cell) ==
    IF cell = Str("SoS") THEN 1
    ELSE IF cell = Str("Q1") THEN 2
    ELSE IF cell = Str("Q2") THEN 3
    ELSE IF cell = Str("Q3") THEN 4
    ELSE IF cell = Str("EoS") THEN 5
    ELSE 99

\* Role cell a may stand before role cell b: text in code point order, a blank
\* after every text.
RoleInOrder(a, b) ==
    IF IsStr(a) /\ IsStr(b) THEN ~StrLess(b.str, a.str) ELSE IsStr(a) \/ ~IsStr(b)

\* C7: the rows of the Shift Changes sheet are in the order of the rank of
\* their Quarter (SoS, Q1, Q2, Q3, EoS, then any other value), and within one
\* rank in the order of their Role.
C7_SummarySorted ==
    LET sheet == workbook["Shift Changes"]
    IN \A i \in 1..(Len(sheet.rows) - 1) :
          LET r1 == RankOf(Cell(sheet, i, "Quarter"))
              r2 == RankOf(Cell(sheet, i + 1, "Quarter"))
          IN \/ r1 < r2
             \/ r1 = r2 /\ RoleInOrder(Cell(sheet, i, "Role"), Cell(sheet, i + 1, "Role"))

\* The summary was rebuilt from a dataset that stores EoS first and holds a
\* quarter value outside the five.
C7_Witness ==
    LET sheet == workbook["Shift Changes"]
    IN /\ Len(sheet.rows) >= 4
       /\ shift_data[1][1] = "EoS"
       /\ \E i \in 1..Len(sheet.rows) : RankOf(Cell(sheet, i, "Quarter")) = 99
       /\ \E i \in 1..Len(sheet.rows) : RankOf(Cell(sheet, i, "Quarter")) = 1

\* C8: a delta asked for a quarter the dataset does not hold shows the fixed
\* not-available message and an empty table, shows no error and leaves the
\* dataset as it was.
C8_NotAvailable ==
    [][(delta' # delta
        /\ (~HasKey(shift_data, delta_q1_var') \/ ~HasKey(shift_data, delta_q2_var')))
       => /\ delta_summary' = [text |-> NotAvailable]
          /\ delta_df' = <<>>
          /\ messages' = messages
          /\ shift_data' = shift_data]_vars

\* A delta was asked between a stored quarter and one that is not stored.
C8_Witness ==
    /\ delta_summary = [text |-> NotAvailable]
    /\ HasKey(shift_data, delta_q1_var)
    /\ ~HasKey(shift_data, delta_q2_var)

\* C9 as stated: a delta of a quarter with itself has Difference 0 and Percent
\* Change 0 in every row.
C9_SameQuarterZero ==
    (delta_summary # [text |-> ""] /\ delta_q1_var = delta_q2_var) =>
        \A i \in 1..Len(delta_df) :
            /\ delta_df[i].Difference = Num(0)
            /\ delta_df[i].PercentChange = Num(0)

\* C10: every delta row whose old value is 0, a stored null included, has
\* Percent Change 0 whatever its new value is.
C10_ZeroOldZeroPercent ==
    \A i \in 1..Len(delta_df) :
        delta_df[i].OldValue = Num(0) => delta_df[i].PercentChange = Num(0)

\* A row whose stored old value is null and whose new value is a positive
\* number.
C10_Witness ==
    \E i \in 1..Len(delta_df) :
        /\ Get(Get(Get(shift_data, delta_q1_var), delta_df[i].Role),
               delta_df[i].Metric) = None
        /\ delta_df[i].OldValue = Num(0)
        /\ IsNum(delta_df[i].NewValue) /\ delta_df[i].NewValue.num > 0

\* The value a delta takes from a stored record for a key: the stored value,
\* 0 for a key that is missing or null.
StoredOrZero(d, key) ==
    IF HasKey(d, key) /\ Get(d, key) # None THEN Get(d, key) ELSE Num(0)

\* The percent p is exactly n / d.
IsQuotient(p, n, d) ==
    IF IsNum(p) THEN p.num * d = n
    ELSE "frac" \in DOMAIN p /\ p.frac[1] * d = n * p.frac[2]

\* C11: every delta row whose two stored values are numbers (or missing or
\* null, taken as 0) has Old Value = the first quarter's value, New Value = the
\* second quarter's value, Difference = new - old and, when old is not 0,
\* Percent Change = (new - old) / old * 100.
C11_RowArithmetic ==
    \A i \in 1..Len(delta_df) :
        LET r == delta_df[i]
            a == StoredOrZero(Get(Get(shift_data, delta_q1_var), r.Role), r.Metric)
            b == StoredOrZero(Get(Get(shift_data, delta_q2_var), r.Role), r.Metric)
        IN IsNum(a) /\ IsNum(b) =>
              /\ r.OldValue = a
              /\ r.NewValue = b
              /\ r.Difference = Num(b.num - a.num)
              /\ a.num # 0 => IsQuotient(r.PercentChange, (b.num - a.num) * 100, a.num)

\* Dock Headcount 10 in SoS and 12 in Q1: Difference 2, Percent Change 20.
C11_Witness ==
    /\ delta_q1_var = "SoS" /\ delta_q2_var = "Q1"
    /\ \E i \in 1..Len(delta_df) :
          /\ delta_df[i].Role = "Dock" /\ delta_df[i].Metric = "Headcount"
          /\ delta_df[i].OldValue = Num(10) /\ delta_df[i].NewValue = Num(12)
          /\ delta_df[i].Difference = Num(2)
          /\ delta_df[i].PercentChange = Num(20)

\* The files of a selection lie in more than one folder.
MixedFolders(files) == \E f \in files, g \in files : FileDir(f) # FileDir(g)

MixedFoldersMessage == "Please select files from the same folder."

\* C12: an import of files that do not all lie in one folder shows the
\* validation error and leaves the dataset and the store exactly as they were.
C12_MixedFoldersRefused ==
    [][\A files \in SUBSET ImportFileNames :
          (MixedFolders(files) /\ (ImportFiles(files) \/ \E k \in 0..(Len(QUARTERS) - 1) : ImportFilesFail(files, k)))
          => /\ shift_data' = shift_data
             /\ json_file' = json_file
             /\ messages' = {MixedFoldersMessage}]_vars

\* A selection from two folders was refused while the dataset held data that
\* the newest of the files would have replaced.
C12_Witness ==
    /\ imports > 0
    /\ messages = {MixedFoldersMessage}
    /\ HasKey(shift_data, "SoS")
    /\ json_file = JsonFile(shift_data)

\* The sheet of quarter q in a workbook is one import_files takes: it exists,
\* has a row and has a Role column.
Importable(book, q) ==
    /\ q \in DOMAIN book
    /\ book[q].rows # <<>>
    /\ "Role" \in Range(book[q].cols)

\* C13 as stated: an import keeps, in a quarter it reads, every entry of the
\* dataset whose role is not a row of the imported sheet.
C13_RoleGranularMerge ==
    [][\A files \in SUBSET ImportFileNames :
          (~MixedFolders(files) /\ ImportFiles(files))
          => LET book == FileBook(LatestFile(files), workbook)
             IN \A q \in Range(QUARTERS) :
                   (Importable(book, q) /\ HasKey(shift_data, q))
                   => \A role \in KeySet(Get(shift_data, q)) :
                         role \notin RolesOf(book[q])
                         => /\ HasKey(Get(shift_data', q), role)
                            /\ Get(Get(shift_data', q), role)
                                 = Get(Get(shift_data, q), role)]_vars

\* C14: an import, whether it completes or fails on the way, leaves every
\* entry of the dataset whose quarter is no sheet of the selected workbook, or
\* whose sheet has no row or no Role column, exactly as it was.
C14_OtherQuartersUntouched ==
    [][\A files \in SUBSET ImportFileNames :
          (ImportFiles(files) \/ \E k \in 0..(Len(QUARTERS) - 1) : ImportFilesFail(files, k))
          => LET book == FileBook(LatestFile(files), workbook)
             IN \A q \in KeySet(shift_data) \cup KeySet(shift_data') \cup Range(QUARTERS) :
                   ~Importable(book, q)
                   => /\ HasKey(shift_data', q) = HasKey(shift_data, q)
                      /\ HasKey(shift_data, q)
                            => Get(shift_data', q) = Get(shift_data, q)]_vars

\* An import replaced SoS by the one row of the imported sheet while the EoS
\* entry, whose sheet in the workbook is empty, kept its two roles.
C14_Witness ==
    /\ "Import Successful" \in messages
    /\ HasKey(shift_data, "SoS") /\ KeySet(Get(shift_data, "SoS")) = {"GK"}
    /\ HasKey(shift_data, "EoS") /\ KeySet(Get(shift_data, "EoS")) = {"Dock", "GK"}

\* C15 as stated: after the reload at the end of a submission, with the store
\* missing or unreadable, the dataset is empty.
C15_FailedLoadEmpties ==
    (Submitted /\ json_file.state # "ok") => shift_data = <<>>

\* A sheet without its Quarter column: the other columns in their order, every
\* row with the cells under them.
NotQuarter(c) == c # "Quarter"

WithoutQuarter(sheet) ==
    LET cols == SelectSeq(sheet.cols, NotQuarter)
    IN IF cols = <<>> THEN EmptyFrame
       ELSE [cols |-> cols,
             rows |-> [i \in 1..Len(sheet.rows) |->
                         [j \in 1..Len(cols) |-> Cell(sheet, i, cols[j])]]]

\* C16: after aggregate_data(document, "EoS") the EoS sheet is the sheet as
\* it was before the call without its Quarter column, and a second call
\* leaves the document as the first one left it.
C16_ResolveEoSIdempotent ==
    eos_state = "passthrough" =>
        /\ workbook["EoS"] = WithoutQuarter(sheet_before)
        /\ aggregate_data(workbook, "EoS") = workbook

\* The call dropped the Quarter column of an EoS sheet that a rollup had
\* written.
C16_Witness ==
    /\ eos_state = "passthrough"
    /\ HasCol(sheet_before, "Quarter") /\ sheet_before.rows # <<>>
    /\ workbook["EoS"].rows # <<>> /\ ~HasCol(workbook["EoS"], "Quarter")

\* C17 as stated: the rows and the summary lines of a delta come out in one
\* order for a dataset and a pair of quarters, whatever order the common roles
\* are iterated in.
C17_StableOrder ==
    [][(delta' # delta
        /\ HasKey(shift_data, delta_q1_var') /\ HasKey(shift_data, delta_q2_var'))
       => \A order \in Orders(CommonRoles(shift_data, delta_q1_var', delta_q2_var')) :
             LET res == compute_deltas_between(shift_data, delta_q1_var',
                                               delta_q2_var', order)
             IN res.df = delta_df' /\ res.summary = delta_summary']_vars

\* C18: when aggregate_data fails for a submission of SoS, Q1, Q2 or Q3, the
\* failure is shown, the EoS sheet stays as it was, the sheet of the quarter
\* keeps the batch just written, and submit_data goes on to the summary
\* rebuild.
C18_RollupFailureContained ==
    [][(pc = "aggregate" /\ selected_quarter # "EoS" /\ eos_state' = "failed")
       => /\ "Aggregation failed" \in messages'
          /\ workbook'["EoS"] = workbook["EoS"]
          /\ workbook'[selected_quarter] = workbook[selected_quarter]
          /\ SheetHolds(workbook[selected_quarter], records, AllKeys(records))
          /\ pc' = "summary"]_vars

\* A submission of a rollup quarter whose aggregation failed ran to its
\* Success box: the EoS sheet is not the rollup of the sheets, the sheet of
\* the quarter holds the batch.
C18_Witness ==
    /\ Submitted
    /\ eos_state = "failed"
    /\ "Aggregation failed" \in messages
    /\ selected_quarter # "EoS"
    /\ SheetHolds(workbook[selected_quarter], records, AllKeys(records))
    /\ workbook["EoS"] # AggregateQuarters(workbook)["EoS"]

\* C19 as stated: every failure of the sheet write, the aggregation (on both
\* paths), the summary rebuild and the delta computation is caught and shown;
\* none leaves the operation or submit_data as an unhandled exception.
C19_NoUnhandledFault == "unhandled exception" \notin messages

\* The number of (quarter, role) entries of a dataset.
TotalRoles(data) ==
    LET F[i \in 0..Len(data)] == IF i = 0 THEN 0 ELSE F[i - 1] + Len(data[i][2])
    IN F[Len(data)]

\* C20 as stated: a rebuilt Shift Changes sheet has one row per quarter key and
\* role of the dataset; the rows of a key carry that key as their Quarter,
\* whatever Quarter field the records hold, and the other fields of the
\* records; there is no QuarterOrder column.
C20_RowPerEntry ==
    [][workbook'["Shift Changes"] # workbook["Shift Changes"]
       => LET sheet == workbook'["Shift Changes"]
              rows == 1..Len(sheet.rows)
          IN /\ Len(sheet.rows) = TotalRoles(shift_data)
             /\ ~HasCol(sheet, "QuarterOrder")
             /\ \A i \in 1..Len(shift_data) :
                   LET q == shift_data[i][1]
                       roles == shift_data[i][2]
                       of_q == {r \in rows : Cell(sheet, r, "Quarter") = Str(q)}
                   IN /\ Cardinality(of_q) = Len(roles)
                      /\ \A j \in 1..Len(roles) : \E r \in of_q :
                            \A k \in KeySet(roles[j][2]) \ {"Quarter"} :
                               Cell(sheet, r, k) = CellOf(Get(roles[j][2], k))]_vars

\* A stored value a delta can compare: a number, the NaN of an empty cell,
\* text made of digits, or a missing or null value (taken as 0).
Comparable(d, key) ==
    LET v == StoredOrZero(d, key)
    IN IsNum(v) \/ v = NaN \/ (IsStr(v) /\ isdigit(v.str))

\* The (role, key) pairs a delta of the two quarters has rows for.
ComparablePairs(data, q1, q2) ==
    {rk \in (KeySet(Get(data, q1)) \cap KeySet(Get(data, q2)))
            \X UNION {KeySet(Get(data, q1)[i][2]) : i \in 1..Len(Get(data, q1))} :
        /\ HasKey(Get(Get(data, q1), rk[1]), rk[2])
        /\ Comparable(Get(Get(data, q1), rk[1]), rk[2])
        /\ Comparable(Get(Get(data, q2), rk[1]), rk[2])}

\* A delta between two stored quarters is shown.
DeltaShown ==
    /\ delta_summary # [text |-> ""]
    /\ HasKey(shift_data, delta_q1_var) /\ HasKey(shift_data, delta_q2_var)

\* C21: a delta between two stored quarters has exactly one row for each role
\* of both quarters and key of the first quarter's record whose two values
\* are comparable, a key the second record lacks giving New Value 0, and has
\* no other row.
C21_RowPerComparablePair ==
    DeltaShown =>
        LET pairs == ComparablePairs(shift_data, delta_q1_var, delta_q2_var)
        IN /\ Len(delta_df) = Cardinality(pairs)
           /\ \A rk \in pairs :
                 \E i \in 1..Len(delta_df) :
                    /\ delta_df[i].Role = rk[1] /\ delta_df[i].Metric = rk[2]
                    /\ ~HasKey(Get(Get(shift_data, delta_q2_var), rk[1]), rk[2])
                          => delta_df[i].NewValue = Num(0)
           /\ \A i \in 1..Len(delta_df) :
                 <<delta_df[i].Role, delta_df[i].Metric>> \in pairs

\* A delta with a row for a key the second quarter's record lacks, and with
\* no row for the text field of the same record.
C21_Witness ==
    /\ DeltaShown
    /\ \E i \in 1..Len(delta_df) :
          LET r == delta_df[i]
              data1 == Get(Get(shift_data, delta_q1_var), r.Role)
              data2 == Get(Get(shift_data, delta_q2_var), r.Role)
          IN /\ ~HasKey(data2, r.Metric)
             /\ r.NewValue = Num(0)
             /\ HasKey(data1, "Role")
             /\ \A j \in 1..Len(delta_df) : delta_df[j].Metric # "Role"

\* C22: an import that shows its success box and no error has merged every
\* sheet of the newest file into the dataset and left the store holding
\* exactly the dataset.
C22_StoreIsDataset ==
    [][\A files \in SUBSET ImportFileNames :
          ((ImportFiles(files) \/ ImportFilesSaveFails(files))
           /\ messages' = {"Import Successful"})
          => /\ shift_data' = ImportQuarters(shift_data,
                                             FileBook(LatestFile(files), workbook),
                                             Len(QUARTERS))
             /\ json_file' = JsonFile(shift_data')]_vars

\* An import completed: the dataset holds two quarters and the store holds
\* both.
C22_Witness ==
    /\ imports > 0
    /\ messages = {"Import Successful"}
    /\ Len(shift_data) >= 2
    /\ json_file = JsonFile(shift_data)

\* The sheets a step rewrites with other contents.
ChangedSheets == {s \in DOMAIN workbook : workbook'[s] # workbook[s]}

RoleUniverse ==
    {RspRole(f) : f \in {"A2", "A3", "A4", "B2", "B3", "B4"}}
    \cup {"RSP (Total)", "RSP (Headcount Total)", "Non-RSP (Headcount Total)",
          "Dock", "Damageland"}
    \cup {"Customer Returns", "Inbound Support Services (ICQA)", "IOL", "GK"}

\* C24 as stated: no load, import or submission stores a role outside the
\* role universe under a quarter.
C24_NoOrphanRole ==
    [][\A i \in 1..Len(shift_data') :
          \A role \in KeySet(shift_data'[i][2]) :
             (~HasKey(shift_data, shift_data'[i][1])
              \/ ~HasKey(Get(shift_data, shift_data'[i][1]), role))
             => role \in RoleUniverse]_vars

\* C25: the summary of a delta between two stored quarters has one line per
\* row of the table, line i being the line of row i; it is the fixed
\* no-common-data text exactly when no (role, key) pair is comparable, and
\* then the table is empty.  It is that text in no other case.
C25_SummaryMatchesRows ==
    /\ DeltaShown =>
          LET pairs == ComparablePairs(shift_data, delta_q1_var, delta_q2_var)
          IN /\ (delta_summary = [text |-> NoCommonData]) = (pairs = {})
             /\ pairs = {} => delta_df = <<>>
             /\ pairs # {} =>
                   /\ DOMAIN delta_summary = {"lines"}
                   /\ Len(delta_summary.lines) = Len(delta_df)
                   /\ \A i \in 1..Len(delta_df) :
                         /\ delta_summary.lines[i][1] = delta_df[i].Role
                         /\ delta_summary.lines[i][2] = delta_df[i].Metric
                         /\ delta_summary.lines[i][3] = delta_df[i].OldValue
                         /\ delta_summary.lines[i][4] = delta_df[i].NewValue
    /\ delta_summary = [text |-> NoCommonData] => DeltaShown

\* The no-common-data text for two quarters that share a role, none of whose
\* fields is a number in both.
C25_Witness ==
    /\ DeltaShown
    /\ delta_summary = [text |-> NoCommonData]
    /\ delta_df = <<>>
    /\ delta_q1_var # delta_q2_var
    /\ CommonRoles(shift_data, delta_q1_var, delta_q2_var) # {}

\* An EoS sheet that holds records submitted for EoS: it has rows and no
\* Quarter column (a rollup of submitted batches keeps the Quarter column).
DirectEoS(sheet) == sheet.rows # <<>> /\ ~HasCol(sheet, "Quarter")

\* C26: after a submission of EoS the EoS sheet holds the submitted records;
\* when aggregate_data has run for a submission of SoS, Q1, Q2 or Q3, the EoS
\* sheet is the rollup of the SoS..Q3 sheets whatever it held before, and when
\* it held directly submitted records no sheet of the document holds them any
\* more, then or later.
C26_EoSFollowsLastSubmission ==
    /\ eos_state = "passthrough" => DirectEoS(workbook["EoS"])
    /\ (eos_state = "aggregated" /\ pc = "summary") =>
          workbook["EoS"]
             = AggregateQuarters([workbook EXCEPT !["EoS"] = EmptyFrame])["EoS"]
    /\ (eos_state = "aggregated" /\ DirectEoS(eos_before)) =>
          \A s \in DOMAIN workbook : workbook[s] # eos_before

\* EoS was submitted with a Dock headcount, then another quarter without one:
\* the EoS sheet shows the rollup, the submitted headcount is gone.
C26_Witness ==
    /\ eos_state = "aggregated"
    /\ DirectEoS(eos_before)
    /\ \E i \in RowsOf(eos_before, "Dock") :
          Cell(eos_before, i, "Headcount") = Num(MaxCount)
    /\ EoSCell(workbook, "Dock", "Headcount") = Num(0)

\* C27: an import that fails after the sheets of the first k quarters leaves
\* each of those quarters, when its sheet is one the import takes, replaced in
\* the dataset by the rows of the sheet, every later quarter as it was, and
\* the store as it was; the failure is shown.
C27_FailedImportPartial ==
    [][\A files \in SUBSET ImportFileNames, k \in 0..(Len(QUARTERS) - 1) :
          ImportFilesFail(files, k)
          => LET book == FileBook(LatestFile(files), workbook)
             IN /\ json_file' = json_file
                /\ "Failed to import file" \in messages'
                /\ \A j \in 1..Len(QUARTERS) :
                      LET q == QUARTERS[j]
                      IN IF j <= k /\ Importable(book, q)
                         THEN /\ HasKey(shift_data', q)
                              /\ Get(shift_data', q)
                                    = QuarterDict(read_excel(book[q]), Len(book[q].rows))
                         ELSE /\ HasKey(shift_data', q) = HasKey(shift_data, q)
                              /\ HasKey(shift_data, q)
                                    => Get(shift_data', q) = Get(shift_data, q)]_vars

\* After a failed import the store still holds the dataset as it was before
\* the import, and the dataset differs from it.
C27_Witness ==
    /\ messages = {"Failed to import file"}
    /\ json_file.state = "ok"
    /\ json_file.data # <<>>
    /\ shift_data # json_file.data

\* The sheets a submission of the selected quarter may rewrite.
TargetSheets ==
    (IF selected_quarter = "EoS" THEN {} ELSE {selected_quarter})
    \cup {"EoS", "Shift Changes"}

\* C28: the document always has the seven sheets of create_new_workbook and
\* an empty Wash sheet; a step changes no sheet but the sheet of the selected
\* quarter, EoS and Shift Changes, and for EoS none of SoS, Q1, Q2 and Q3.
C28_OnlyTargetSheets ==
    [][/\ DOMAIN workbook = SheetNames /\ DOMAIN workbook' = SheetNames
       /\ Cardinality(DOMAIN workbook') = Len(QUARTERS) + 2
       /\ workbook["Wash"] = EmptyFrame /\ workbook'["Wash"] = EmptyFrame
       /\ ChangedSheets \subseteq TargetSheets]_vars

\* A submission of Q1, Q2 or Q3 ran to its end on a document that held SoS:
\* the quarter sheet, EoS and Shift Changes are written, SoS is as it was.
C28_Witness ==
    /\ Submitted
    /\ selected_quarter \in {"Q1", "Q2", "Q3"}
    /\ workbook["SoS"] = EarlierBook["SoS"]
    /\ workbook["SoS"].rows # <<>>
    /\ SheetHolds(workbook[selected_quarter], records, AllKeys(records))
    /\ eos_state = "aggregated"
    /\ workbook["Shift Changes"].rows # <<>>
    /\ workbook["Wash"] = EmptyFrame

Count(v) == IF IsNum(v) THEN v.num ELSE 0

RecordCount(recs, role, c) ==
    LET rec == recs[CHOOSE i \in 1..Len(recs) : Get(recs[i], "Role") = Str(role)]
    IN IF HasKey(rec, c) THEN Count(Get(rec, c)) ELSE 0

FloorRoles == AsSeq([i \in 1..Len(RSP_FLOORS) |-> RspRole(RSP_FLOORS[i])])
NonRspRoles == <<"Dock", "Damageland">> \o OTHER_ROLES

BatchSum(recs, roles, c) ==
    SumSeq(AsSeq([i \in 1..Len(roles) |-> RecordCount(recs, roles[i], c)]))

EoSSum(wb, roles, c) ==
    SumSeq(AsSeq([i \in 1..Len(roles) |-> Count(EoSCell(wb, roles[i], c))]))

====
